---- MODULE Spec2Model ----
(***************************************************************************)
(* Media Triage (triage.py): drive discovery and provisioning, the import  *)
(* walk with purge marking, and the two-phase deletion pipeline.           *)
(*                                                                         *)
(* Paths, file names and the deletion log are sequences of one-character   *)
(* strings, so that os.path.join, os.path.normpath, os.path.splitext,      *)
(* str.lower, str.strip and the line-wise write/read of the log are        *)
(* computed, not assumed.  The character " " stands for any character of   *)
(* Python's str.isspace class that Windows allows at the end of a name     *)
(* (U+00A0, U+3000, ...).                                                  *)
(***************************************************************************)
EXTENDS Integers, Sequences, FiniteSets, TLC

\* Number of process runs (invocations of main) a behaviour may hold.
MaxRuns == 2

\* Number of directory listings (os.scandir) that may fail in one run.
MaxListFailures == 1

\* ------------------------------------------------------------------------
\* Characters and strings
\* ------------------------------------------------------------------------

Whitespace == {" ", "\t", "\n", "\r"}

UpperCase == <<"A","B","C","D","E","F","G","H","I","J","K","L","M",
               "N","O","P","Q","R","S","T","U","V","W","X","Y","Z">>

LowerCase == <<"a","b","c","d","e","f","g","h","i","j","k","l","m",
               "n","o","p","q","r","s","t","u","v","w","x","y","z">>

\* str.lower on one character.
LowerChar(c) ==
    IF \E k \in 1..Len(UpperCase) : UpperCase[k] = c
    THEN LowerCase[CHOOSE k \in 1..Len(UpperCase) : UpperCase[k] = c]
    ELSE c

\* str.lower
Lower(s) == [k \in 1..Len(s) |-> LowerChar(s[k])]

\* str.lstrip / str.rstrip / str.strip (no argument: whitespace)
RECURSIVE LStrip(_)
LStrip(s) ==
    IF s # <<>> /\ Head(s) \in Whitespace THEN LStrip(Tail(s)) ELSE s

RECURSIVE RStrip(_)
RStrip(s) ==
    IF s # <<>> /\ s[Len(s)] \in Whitespace
    THEN RStrip(SubSeq(s, 1, Len(s) - 1))
    ELSE s

Strip(s) == LStrip(RStrip(s))

\* Concatenation of a sequence of strings.
RECURSIVE Concat(_)
Concat(ss) == IF ss = <<>> THEN <<>> ELSE Head(ss) \o Concat(Tail(ss))

\* s.split(c): the pieces of s between occurrences of c.
RECURSIVE SplitOn(_, _)
SplitOn(s, c) ==
    IF \E k \in 1..Len(s) : s[k] = c
    THEN LET k == CHOOSE j \in 1..Len(s) :
                      s[j] = c /\ \A h \in 1..(j - 1) : s[h] # c
         IN  <<SubSeq(s, 1, k - 1)>> \o SplitOn(SubSeq(s, k + 1, Len(s)), c)
    ELSE <<s>>

\* The non-empty strings of a sequence of strings, in order.
RECURSIVE SelectNonEmpty(_)
SelectNonEmpty(ss) ==
    IF ss = <<>> THEN <<>>
    ELSE IF Head(ss) # <<>> THEN <<Head(ss)>> \o SelectNonEmpty(Tail(ss))
         ELSE SelectNonEmpty(Tail(ss))

Range(f) == {f[x] : x \in DOMAIN f}

\* ------------------------------------------------------------------------
\* os.path (ntpath)
\* ------------------------------------------------------------------------

Sep == "\\"

\* os.path.join(p, name) for a relative name without separators.
PathJoin(p, name) ==
    IF p # <<>> /\ p[Len(p)] \in {Sep, "/", ":"} THEN p \o name
    ELSE p \o <<Sep>> \o name

\* normpath's treatment of the components after the drive: empty and "."
\* components are dropped, ".." removes the component before it.
RECURSIVE NormComps(_, _)
NormComps(comps, acc) ==
    IF comps = <<>> THEN acc
    ELSE LET c == Head(comps) IN
         IF c = <<>> \/ c = <<".">> THEN NormComps(Tail(comps), acc)
         ELSE IF c = <<".", ".">>
              THEN NormComps(Tail(comps),
                             IF acc = <<>> THEN acc
                             ELSE SubSeq(acc, 1, Len(acc) - 1))
              ELSE NormComps(Tail(comps), Append(acc, c))

RECURSIVE JoinWith(_, _)
JoinWith(comps, c) ==
    IF comps = <<>> THEN <<>>
    ELSE IF Len(comps) = 1 THEN Head(comps)
         ELSE Head(comps) \o <<c>> \o JoinWith(Tail(comps), c)

\* os.path.normpath for a path with a drive ("X:..."): "/" becomes "\",
\* separators are collapsed, a trailing separator is dropped (the root's
\* is kept).  The case of the letters is left as it is.
NormPath(p) ==
    LET q     == [k \in 1..Len(p) |-> IF p[k] = "/" THEN Sep ELSE p[k]]
        drive == SubSeq(q, 1, 2)
        rest  == SubSeq(q, 3, Len(q))
        abs   == rest # <<>> /\ Head(rest) = Sep
        comps == NormComps(SplitOn(rest, Sep), <<>>)
    IN  drive \o (IF abs THEN <<Sep>> ELSE <<>>) \o JoinWith(comps, Sep)

\* os.path.splitext(name)[1] for a name without separators: from the last
\* dot on, unless only dots precede it.
SplitExt(name) ==
    IF \E d \in 1..Len(name) :
           name[d] = "." /\ \E j \in 1..(d - 1) : name[j] # "."
    THEN LET d == CHOOSE k \in 1..Len(name) :
                      /\ name[k] = "."
                      /\ \A h \in (k + 1)..Len(name) : name[h] # "."
         IN  IF \E j \in 1..(d - 1) : name[j] # "."
             THEN SubSeq(name, d, Len(name))
             ELSE <<>>
    ELSE <<>>

\* ------------------------------------------------------------------------
\* JSON values and drive descriptors (drive.json)
\* ------------------------------------------------------------------------

\* A JSON value is written as its JSON text: "true", "false", "0", "null",
\* and a JSON string with its quotes ("\"false\"").

\* Python's `x is True` for a value loaded from JSON.
IsTrue(v) == v = "true"

\* Python's truth value of a value loaded from JSON.
Truthy(v) == v \notin {"false", "null", "0", "\"\"", "[]", "{}"}

\* dict.get(key, default)
Get(data, key, default) == IF key \in DOMAIN data THEN data[key] ELSE default

\* The content of a drive.json file: missing, not parseable as JSON, JSON
\* that is not an object (a list, a string, a number, null), or an object.
NoDescriptor  == [kind |-> "absent",    data |-> <<>>]
Malformed     == [kind |-> "malformed", data |-> <<>>]
NotAnObject   == [kind |-> "nonobject", data |-> <<>>]
Object(data)  == [kind |-> "object",    data |-> data]

\* The dictionary with the keys of f whose choice is not "none".
MkData(f) == [k \in {x \in DOMAIN f : f[x] # "none"} |-> f[k]]

\* ------------------------------------------------------------------------
\* The removable volumes and their directory trees
\* ------------------------------------------------------------------------

\* The drive letters for which GetDriveTypeW reports DRIVE_REMOVABLE,
\* in string.ascii_uppercase order.
Letters == <<"E", "F">>

\* f"{letter}:\\"
DrivePath(letter) == <<letter, ":", Sep>>

removable_drives == [k \in 1..Len(Letters) |-> DrivePath(Letters[k])]

\* Directory names: plain names, a name that ends in a whitespace character
\* and a name made of one whitespace character.
NameA  == <<"a">>
NameB  == <<"b">>
NameAw == <<"a", " ">>
NameW  == <<" ">>

\* The order in which os.scandir lists the subdirectories.
NameOrder == <<NameW, NameA, NameAw, NameB>>

\* File names, and directory entries: a regular file (is_file), or an entry
\* that is neither a file nor a directory (a dangling link, a device).
IMG == <<"i", ".", "J", "P", "G">>
MOV == <<"v", ".", "m", "o", "v">>
TXT == <<"n", ".", "t", "x", "t">>
DOT == <<".", "j", "p", "g">>

File(name)  == [name |-> name, kind |-> "file"]
Other(name) == [name |-> name, kind |-> "other"]

\* A directory: its non-directory entries and the names of its subdirectories.
Dir(files, subs) == [files |-> files, subs |-> subs]

\* What a directory of the initial trees may hold besides subdirectories.
Contents == { {}, {File(IMG)}, {File(TXT)}, {File(MOV), File(TXT)},
              {File(DOT)}, {Other(IMG)} }

\* The initial trees of a volume: under the root, optionally " ", "a " (both
\* empty), and "a" with optional "a\b"; <<>> for a directory that is not
\* there, <<c>> for one that holds the entries c.
TreeShapes ==
    [w : BOOLEAN, aw : BOOLEAN, a : {<<>>} \cup {<<c>> : c \in Contents},
     b : {<<>>} \cup {<<c>> : c \in Contents}]

Tree(root, sh) ==
    LET hasA == sh.a # <<>>
        hasB == hasA /\ sh.b # <<>>
        pa   == PathJoin(root, NameA)
        dom  == {root}
                \cup (IF sh.w  THEN {PathJoin(root, NameW)}  ELSE {})
                \cup (IF sh.aw THEN {PathJoin(root, NameAw)} ELSE {})
                \cup (IF hasA  THEN {pa} ELSE {})
                \cup (IF hasB  THEN {PathJoin(pa, NameB)} ELSE {})
    IN  [p \in dom |->
            IF p = root
            THEN Dir({File(IMG)},
                     (IF sh.w  THEN {NameW}  ELSE {}) \cup
                     (IF sh.aw THEN {NameAw} ELSE {}) \cup
                     (IF hasA  THEN {NameA}  ELSE {}))
            ELSE IF p = pa
                 THEN Dir(sh.a[1], IF hasB THEN {NameB} ELSE {})
                 ELSE IF hasB /\ p = PathJoin(pa, NameB)
                      THEN Dir(sh.b[1], {})
                      ELSE Dir({}, {})]

\* The union of two functions with disjoint domains.
Merge(f, g) ==
    [x \in DOMAIN f \cup DOMAIN g |-> IF x \in DOMAIN f THEN f[x] ELSE g[x]]

\* The subdirectories of directory p, as paths, in listing order.
RECURSIVE SubPaths(_, _, _)
SubPaths(p, subs, order) ==
    IF order = <<>> THEN <<>>
    ELSE (IF Head(order) \in subs THEN <<PathJoin(p, Head(order))>> ELSE <<>>)
         \o SubPaths(p, subs, Tail(order))

\* Whether path q is p or lies under p.
IsUnder(q, p) ==
    /\ Len(q) >= Len(p)
    /\ SubSeq(q, 1, Len(p)) = p
    /\ \/ Len(q) = Len(p)
       \/ p[Len(p)] = Sep
       \/ q[Len(p) + 1] = Sep

\* The drive letter of a path.
LetterOf(p) == p[1]

\* ------------------------------------------------------------------------
\* State
\* ------------------------------------------------------------------------

VARIABLES
    run,            \* the number of this run of main
    pc,             \* where main is: "start", "detect", "walk", "confirm",
                    \* "delete"; or how it ended: "done",
                    \* "exit1" (sys.exit(1)), "exc" (uncaught exception),
                    \* "killed" (stopped from outside)
    config,         \* disk: config.json and the paths it names
    desc,           \* disk: the drive.json of each volume
    dirs,           \* disk: the directories of the volumes, by path
    logfile,        \* disk: logs/folders_to_delete.log
    valid_drives,   \* detect_external_drives: the list being built
    di,             \* detect_external_drives: index into removable_drives
    folders_marked_for_deletion,
    wi,             \* import_from_external_drives: index into drives
    todo,           \* os.walk: the directories still to visit, next first
    folders,        \* confirm_and_delete_folders: the lines read back
    fi,             \* confirm_and_delete_folders: the loop's i
    backed_up,      \* history: the files handed to backup_media_file
    last_try,       \* history: the last call of try_remove_folder
    written,        \* history: the candidate list written in this run
    attempts,       \* history: the shutil.rmtree calls of this run
    list_failures   \* history: the os.scandir calls that raised in this run

disk   == <<config, desc, dirs, logfile>>
memory == <<valid_drives, di, folders_marked_for_deletion, wi, todo,
            folders, fi>>
history == <<backed_up, last_try, written, attempts, list_failures>>
vars   == <<run, pc, disk, memory, history>>

NoTry == [path |-> <<>>, listed |-> FALSE, files |-> {}, subs |-> {},
          marked |-> FALSE]

NoWrite == [done |-> FALSE, list |-> <<>>]

NoLog == [exists |-> FALSE, text |-> <<>>]

\* The state of a process that has just been started.
FreshProcess ==
    /\ pc = "start"
    /\ valid_drives = <<>>
    /\ di = 1
    /\ folders_marked_for_deletion = <<>>
    /\ wi = 1
    /\ todo = <<>>
    /\ folders = <<>>
    /\ fi = 1
    /\ backed_up = {}
    /\ last_try = NoTry
    /\ written = NoWrite
    /\ attempts = <<>>
    /\ list_failures = 0

\* ------------------------------------------------------------------------
\* main: load_config, validate_paths, initialize_triage
\* ------------------------------------------------------------------------

PathKeys == {"python_path", "triage_script", "log_file (parent dir)",
             "inbox_path"}

GoodConfig == [readable |-> TRUE, paths |-> [k \in PathKeys |-> TRUE]]

\* Mutant of PathsMissing: `missing` is overwritten by each iteration of
\* the loop, so only the last path, inbox_path, decides.
PathsMissingLastOnly(c) == ~c.paths["inbox_path"]

\* validate_paths: some path is missing or does not exist.
PathsMissing(c) == \E k \in PathKeys : ~c.paths[k]

\* main up to the call of detect_external_drives: load_config exits with 1
\* when config.json cannot be loaded, validate_paths when a path is missing.
Startup ==
    /\ pc = "start"
    /\ pc' = IF ~config.readable \/ PathsMissing(config) THEN "exit1"
             ELSE "detect"
    /\ UNCHANGED <<run, disk, memory, history>>

\* ------------------------------------------------------------------------
\* detect_external_drives
\* ------------------------------------------------------------------------

\* str(uuid4()) and generate_human_name(): values never seen before.
NewIds   == {"\"u1\"", "\"u2\""}
NewNames == {"\"Silver Falcon\""}

\* How the rewrite of drive.json can end: written; open(..., "w") raised
\* and the file is as it was; open truncated the file and the write or the
\* close raised, leaving a file that is not a JSON document.
WriteOutcomes == {"ok", "open_failed", "write_failed"}

\* data[key] = value
SetKey(data, key, value) ==
    [k \in DOMAIN data \cup {key} |-> IF k = key THEN value ELSE data[k]]

\* Mutant of IsSource: `if not data.get("source")`, any truthy value passes.
IsSourceTruthy(data) == Truthy(Get(data, "source", "null"))

\* `data.get("source") is not True` is False: the drive is a source.
IsSource(data) == IsTrue(Get(data, "source", "null"))

\* The `updated` flag: id or name has to be generated.
NeedsBaptism(data) == "id" \notin DOMAIN data \/ "name" \notin DOMAIN data

\* Mutant of Baptized: the descriptor is rebuilt from the recognized fields,
\* so a field the program does not know is not written back.
BaptizedKnownFieldsOnly(data, id, name) ==
    LET known == {"source", "purge", "id", "name"}
        d0 == [k \in DOMAIN data \cap known |-> data[k]]
        d1 == IF "id" \notin DOMAIN d0 THEN SetKey(d0, "id", id) ELSE d0
    IN  IF "name" \notin DOMAIN d1 THEN SetKey(d1, "name", name) ELSE d1

\* data after lines 123-129: id and name added where missing.
Baptized(data, id, name) ==
    LET d1 == IF "id" \notin DOMAIN data THEN SetKey(data, "id", id)
              ELSE data
    IN  IF "name" \notin DOMAIN d1 THEN SetKey(d1, "name", name) ELSE d1

\* The file after the attempt to write data to it.
AfterWrite(old, data, outcome) ==
    CASE outcome = "ok"           -> Object(data)
      [] outcome = "open_failed"  -> old
      [] outcome = "write_failed" -> Malformed

\* Mutant of KeptAfterWrite: the `continue` of the except branch is missing.
KeptAfterFailedWrite(outcome) == TRUE

\* Whether the drive is appended to valid_drives after the rewrite: a failed
\* write `continue`s.
KeptAfterWrite(outcome) == outcome = "ok"

DriveInfo(path, data) ==
    [path |-> path, id |-> data["id"], name |-> data["name"], json |-> data]

\* One iteration of `for drive in removable_drives`.
DetectDrive ==
    /\ pc = "detect"
    /\ di <= Len(removable_drives)
    /\ LET drive  == removable_drives[di]
           letter == LetterOf(drive)
           file   == desc[letter]
       IN  CASE file.kind \in {"absent", "malformed"} ->
                    \* no drive.json, or json.load raised: skipped
                    /\ di' = di + 1
                    /\ UNCHANGED <<pc, desc, valid_drives>>
             [] file.kind = "nonobject" ->
                    \* data.get raises AttributeError outside any try
                    /\ pc' = "exc"
                    /\ UNCHANGED <<di, desc, valid_drives>>
             [] file.kind = "object" /\ ~IsSource(file.data) ->
                    /\ di' = di + 1
                    /\ UNCHANGED <<pc, desc, valid_drives>>
             [] file.kind = "object" /\ IsSource(file.data) ->
                    \E id \in NewIds, name \in NewNames,
                       outcome \in WriteOutcomes :
                        LET data == Baptized(file.data, id, name) IN
                        /\ di' = di + 1
                        /\ pc' = pc
                        /\ IF NeedsBaptism(file.data)
                           THEN /\ desc' = [desc EXCEPT ![letter] =
                                      AfterWrite(file, data, outcome)]
                                /\ valid_drives' =
                                      IF KeptAfterWrite(outcome)
                                      THEN Append(valid_drives,
                                                  DriveInfo(drive, data))
                                      ELSE valid_drives
                           ELSE /\ desc' = desc
                                /\ valid_drives' =
                                      Append(valid_drives,
                                             DriveInfo(drive, data))
    /\ UNCHANGED <<run, config, dirs, logfile, folders_marked_for_deletion,
                   wi, todo, folders, fi, history>>

\* `return valid_drives`, and import_from_external_drives up to the first
\* os.walk.
DetectReturn ==
    /\ pc = "detect"
    /\ di > Len(removable_drives)
    /\ pc' = "walk"
    /\ wi' = 1
    /\ todo' = IF valid_drives = <<>> THEN <<>>
               ELSE <<valid_drives[1].path>>
    /\ UNCHANGED <<run, disk, valid_drives, di, folders_marked_for_deletion,
                   folders, fi, history>>

\* ------------------------------------------------------------------------
\* try_remove_folder and import_from_external_drives
\* ------------------------------------------------------------------------

\* media_exts of import_from_external_drives
media_exts ==
    << <<".","j","p","g">>, <<".","j","p","e","g">>, <<".","p","n","g">>,
       <<".","g","i","f">>, <<".","b","m","p">>, <<".","h","e","i","c">>,
       <<".","m","p","4">>, <<".","m","o","v">>, <<".","a","v","i">>,
       <<".","m","k","v">> >>

\* media_exts of try_remove_folder
purge_media_exts ==
    << <<".","j","p","g">>, <<".","j","p","e","g">>, <<".","p","n","g">>,
       <<".","g","i","f">>, <<".","b","m","p">>, <<".","h","e","i","c">>,
       <<".","m","p","4">>, <<".","m","o","v">>, <<".","a","v","i">>,
       <<".","m","k","v">> >>

\* os.path.splitext(name)[1].lower()
Ext(name) == Lower(SplitExt(name))

\* The walker's test of a name of os.walk's `files` (every entry that is
\* not a directory).
WalkIsMedia(name) == Ext(name) \in Range(media_exts)

\* Mutant of HasMedia: the extension is compared without .lower().
HasMediaCaseSensitive(files) ==
    \E e \in files :
        e.kind = "file" /\ SplitExt(e.name) \in Range(purge_media_exts)

\* has_media after the loop over the entries: a file with a media extension.
HasMedia(files) ==
    \E e \in files : e.kind = "file" /\ Ext(e.name) \in Range(purge_media_exts)

\* has_subfolders after the loop over the entries.
HasSubfolders(subs) == subs # {}

\* The condition under which try_remove_folder marks a listed directory.
MarksFolder(files, subs) == ~HasMedia(files) /\ ~HasSubfolders(subs)

\* Mutant of AfterTryRemove: the directory is put at the front of the list
\* (insert(0, folder_path)).
AfterTryRemoveAtFront(marked, folder_path, listed, files, subs) ==
    IF listed /\ MarksFolder(files, subs) THEN <<folder_path>> \o marked
    ELSE marked

\* Mutant of AfterTryRemove: the except branch of os.scandir does not
\* return, and has_media and has_subfolders, still False, mark the directory.
AfterTryRemoveNoReturn(marked, folder_path, listed, files, subs) ==
    IF ~listed \/ MarksFolder(files, subs) THEN Append(marked, folder_path)
    ELSE marked

\* folders_marked_for_deletion after try_remove_folder(folder_path) whose
\* os.scandir succeeded (listed) or raised.
AfterTryRemove(marked, folder_path, listed, files, subs) ==
    IF listed /\ MarksFolder(files, subs) THEN Append(marked, folder_path)
    ELSE marked

\* `if purge:` on json_data.get("purge", False)
PurgeActive(json_data) == Truthy(Get(json_data, "purge", "false"))

\* os.path.normpath(root) != os.path.normpath(root_path)
NotDriveRoot(root, root_path) == NormPath(root) # NormPath(root_path)

\* One directory of os.walk: its listing by os.walk (a directory that
\* cannot be listed is passed over with its subtree), the backup of its
\* media files, the purge check, and the step to the next directory or to
\* the next drive.
WalkVisit ==
    /\ pc = "walk"
    /\ wi <= Len(valid_drives)
    /\ todo # <<>>
    /\ LET drive     == valid_drives[wi]
           root_path == drive.path
           root      == Head(todo)
           after(rest) ==
               IF rest # <<>> THEN /\ wi' = wi
                                   /\ todo' = rest
               ELSE /\ wi' = wi + 1
                    /\ todo' = IF wi + 1 <= Len(valid_drives)
                               THEN <<valid_drives[wi + 1].path>>
                               ELSE <<>>
           tried == PurgeActive(drive.json) /\ NotDriveRoot(root, root_path)
           mayFail == list_failures < MaxListFailures
       IN  \E walk_listed \in {b \in BOOLEAN : b \/ mayFail} :
           \E try_listed \in {b \in BOOLEAN :
                                 b \/ (walk_listed /\ tried /\ mayFail)} :
             IF ~walk_listed
             THEN /\ after(Tail(todo))
                  /\ list_failures' = list_failures + 1
                  /\ UNCHANGED <<folders_marked_for_deletion, backed_up,
                                 last_try>>
             ELSE LET files == dirs[root].files
                      subs  == dirs[root].subs
                      marked == AfterTryRemove(folders_marked_for_deletion,
                                               root, try_listed, files, subs)
                  IN  /\ backed_up' = backed_up \cup
                             {PathJoin(root, e.name) :
                                 e \in {f \in files : WalkIsMedia(f.name)}}
                      /\ folders_marked_for_deletion' =
                             IF tried THEN marked
                             ELSE folders_marked_for_deletion
                      /\ last_try' =
                             IF tried
                             THEN [path |-> root, listed |-> try_listed,
                                   files |-> files, subs |-> subs,
                                   marked |->
                                       marked # folders_marked_for_deletion]
                             ELSE last_try
                      /\ list_failures' =
                             IF try_listed THEN list_failures
                             ELSE list_failures + 1
                      /\ after(SubPaths(root, subs, NameOrder) \o Tail(todo))
    /\ UNCHANGED <<run, pc, disk, valid_drives, di, folders, fi, written,
                   attempts>>

\* ------------------------------------------------------------------------
\* The deletion pipeline
\* ------------------------------------------------------------------------

\* What write_folders_to_delete_log writes: each folder and a line feed.
LogText(list) == Concat([k \in 1..Len(list) |-> list[k] \o <<"\n">>])

\* [line.strip() for line in f if line.strip()]
ReadLog(text) ==
    LET lines == SplitOn(text, "\n")
    IN  SelectNonEmpty([k \in 1..Len(lines) |-> Strip(lines[k])])

\* The end of import_from_external_drives (get_root_files, refill_from_inbox
\* and recover_failed_copies do nothing), and finalize_purge_log_and_delete
\* up to the call of confirm_and_delete_folders: nothing is done for an
\* empty candidate list, else the log is written.
Finalize ==
    /\ pc = "walk"
    /\ wi > Len(valid_drives)
    /\ IF folders_marked_for_deletion = <<>>
       THEN /\ pc' = "done"
            /\ UNCHANGED <<logfile, written>>
       ELSE /\ pc' = "confirm"
            /\ logfile' = [exists |-> TRUE,
                           text |-> LogText(folders_marked_for_deletion)]
            /\ written' = [done |-> TRUE,
                           list |-> folders_marked_for_deletion]
    /\ UNCHANGED <<run, config, desc, dirs, memory, backed_up, last_try,
                   attempts, list_failures>>

\* confirm_and_delete_folders up to its loop: the log is read back.
Confirm ==
    /\ pc = "confirm"
    /\ IF ~logfile.exists \/ ReadLog(logfile.text) = <<>>
       THEN /\ pc' = "done"
            /\ UNCHANGED <<folders, fi>>
       ELSE /\ pc' = "delete"
            /\ folders' = ReadLog(logfile.text)
            /\ fi' = 1
    /\ UNCHANGED <<run, disk, valid_drives, di, folders_marked_for_deletion,
                   wi, todo, history>>

\* How shutil.rmtree(folder) can end: it raises leaving the tree as it was
\* (no such directory, or the first removal is refused); it removes the
\* tree; for the root of a volume it removes what the root holds and raises
\* on the root itself.
RmOutcomes(folder) ==
    IF folder \notin DOMAIN dirs THEN {"failed"}
    ELSE IF folder \in Range(removable_drives) THEN {"failed", "emptied"}
         ELSE {"failed", "removed"}

\* The directories after shutil.rmtree(folder).
AfterRmtree(ds, folder, outcome) ==
    CASE outcome = "failed"  -> ds
      [] outcome = "emptied" ->
             [p \in {q \in DOMAIN ds : ~IsUnder(q, folder)} \cup {folder} |->
                 IF p = folder THEN Dir({}, {}) ELSE ds[p]]
      [] outcome = "removed" ->
             [p \in {q \in DOMAIN ds : ~IsUnder(q, folder)} |->
                 Dir(ds[p].files,
                     {n \in ds[p].subs : PathJoin(p, n) # folder})]

\* Mutant of PcAfterRmtree: the rmtree call is not inside try/except.
PcAfterUncaughtRmtree(outcome) ==
    IF outcome = "removed" THEN "delete" ELSE "exc"

\* Where main is after the rmtree call of one iteration: `except Exception`
\* catches what rmtree raises, and the loop goes on.
PcAfterRmtree(outcome) == "delete"

\* One iteration of the deletion loop: the rmtree call, whose exception is
\* caught, and the progress output.
DeleteStep ==
    /\ pc = "delete"
    /\ fi <= Len(folders)
    /\ LET folder == folders[fi] IN
       \E outcome \in RmOutcomes(folder) :
           /\ dirs' = AfterRmtree(dirs, folder, outcome)
           /\ desc' = IF outcome = "emptied"
                      THEN [desc EXCEPT ![LetterOf(folder)] = NoDescriptor]
                      ELSE desc
           /\ attempts' = Append(attempts,
                                 [path |-> folder, ok |-> outcome = "removed"])
           /\ pc' = PcAfterRmtree(outcome)
    /\ fi' = fi + 1
    /\ UNCHANGED <<run, config, logfile, valid_drives, di,
                   folders_marked_for_deletion, wi, todo, folders,
                   backed_up, last_try, written, list_failures>>

\* The end of the loop: "Folder deletion completed.", and main's
\* "=== Triage Completed ===".
DeleteComplete ==
    /\ pc = "delete"
    /\ fi > Len(folders)
    /\ pc' = "done"
    /\ UNCHANGED <<run, disk, memory, history>>

\* The process is stopped from outside between the write of the log and the
\* end of the deletion loop.
Kill ==
    /\ pc \in {"confirm", "delete"}
    /\ pc' = "killed"
    /\ UNCHANGED <<run, disk, memory, history>>

\* The program is run again: a new process, the disk as the last one left it.
NewRun ==
    /\ pc \in {"done", "exit1", "exc", "killed"}
    /\ run < MaxRuns
    /\ run' = run + 1
    /\ pc' = "start"
    /\ valid_drives' = <<>>
    /\ di' = 1
    /\ folders_marked_for_deletion' = <<>>
    /\ wi' = 1
    /\ todo' = <<>>
    /\ folders' = <<>>
    /\ fi' = 1
    /\ backed_up' = {}
    /\ last_try' = NoTry
    /\ written' = NoWrite
    /\ attempts' = <<>>
    /\ list_failures' = 0
    /\ UNCHANGED disk

\* ------------------------------------------------------------------------
\* Initial states: the disk before the first run
\* ------------------------------------------------------------------------

\* The descriptors a volume may carry: every combination of the recognized
\* fields being absent, as they should be, or of another type, with or
\* without an unrecognized field.
Descriptors ==
    {NoDescriptor, Malformed, NotAnObject} \cup
    {Object(MkData(f)) :
        f \in [source : {"none", "true", "false", "1"},
               purge  : {"none", "true", "\"false\""},
               id     : {"none", "\"7f3a\""},
               name   : {"none", "\"Quiet Wolf\""},
               label  : {"none", "\"cards\""}]}

\* A provisioned source drive with the given purge value.
Provisioned(purge) ==
    Object(MkData([source |-> "true", purge |-> purge, id |-> "\"7f3a\"",
                   name |-> "\"Quiet Wolf\"", label |-> "none"]))

Unprovisioned ==
    Object(MkData([source |-> "true", purge |-> "true", id |-> "none",
                   name |-> "none", label |-> "none"]))

\* A small tree: the root and one empty directory "a".
SmallTree(root) ==
    Tree(root, [w |-> FALSE, aw |-> FALSE, a |-> <<{}>>, b |-> <<>>])

PurgeValues == {"none", "true", "false", "\"false\"", "0"}

\* Any descriptor on E:, a few on F:, small trees.
InitRegistry ==
    /\ config = GoodConfig
    /\ \E d \in Descriptors,
          e \in {NoDescriptor, Malformed, NotAnObject, Unprovisioned,
                 Provisioned("true")} :
          desc = [l \in Range(Letters) |-> IF l = "E" THEN d ELSE e]
    /\ dirs = Merge(SmallTree(DrivePath("E")), SmallTree(DrivePath("F")))

\* Two provisioned drives, any purge value on E:, small trees.
InitPurge ==
    /\ config = GoodConfig
    /\ \E purge \in PurgeValues :
          desc = [l \in Range(Letters) |->
                     IF l = "E" THEN Provisioned(purge)
                     ELSE Provisioned("true")]
    /\ dirs = Merge(SmallTree(DrivePath("E")), SmallTree(DrivePath("F")))

\* Two provisioned drives with purge set, any tree on E:.
InitTrees ==
    /\ config = GoodConfig
    /\ desc = [l \in Range(Letters) |-> Provisioned("true")]
    /\ \E sh \in TreeShapes :
          dirs = Merge(Tree(DrivePath("E"), sh), SmallTree(DrivePath("F")))

\* Any configuration that fails to load or to validate.
InitConfig ==
    /\ config \in [readable : BOOLEAN, paths : [PathKeys -> BOOLEAN]]
                  \ {GoodConfig}
    /\ desc = [l \in Range(Letters) |-> Provisioned("true")]
    /\ dirs = Merge(SmallTree(DrivePath("E")), SmallTree(DrivePath("F")))

Init ==
    /\ run = 1
    /\ FreshProcess
    /\ logfile = NoLog
    /\ (InitRegistry \/ InitPurge \/ InitTrees \/ InitConfig)

Next ==
    \/ Startup
    \/ DetectDrive
    \/ DetectReturn
    \/ WalkVisit
    \/ Finalize
    \/ Confirm
    \/ DeleteStep
    \/ DeleteComplete
    \/ Kill
    \/ NewRun

Spec == Init /\ [][Next]_vars

\* ------------------------------------------------------------------------
\* Properties
\* ------------------------------------------------------------------------

Roots == Range(removable_drives)

\* The paths of the rmtree calls made so far in this run, in order.
AttemptedPaths == [k \in 1..Len(attempts) |-> attempts[k].path]

\* C1. Checkpoint-before-delete: once the log has been written in this run,
\* what is read back from the file, and what the deletion loop works on,
\* is the candidate list as written: same paths, same order, same
\* multiplicity, also when the loop has stopped mid-batch.
C1_CheckpointBeforeDelete ==
    written.done =>
        /\ logfile.exists
        /\ ReadLog(logfile.text) = written.list
        /\ pc = "delete" => folders = written.list

\* C2. Phase 1 precedes Phase 2: every removal attempt of a run follows the
\* write, in that run, of a log that holds the attempted path; a run with
\* an empty candidate list attempts no removal.
C2_PhaseOneBeforePhaseTwo ==
    /\ \A k \in 1..Len(attempts) :
           written.done /\ attempts[k].path \in Range(written.list)
    /\ folders_marked_for_deletion = <<>> => attempts = <<>>

\* C3. Partial-failure isolation: in the deletion loop the paths attempted
\* so far are the first i-1 lines read from the log, in order, whichever of
\* them failed; the loop can always take its next step; no exception leaves
\* it; and when it has completed, every line has been attempted.
C3_PartialFailureIsolation ==
    /\ pc = "delete" =>
           /\ fi \in 1..(Len(folders) + 1)
           /\ AttemptedPaths = SubSeq(folders, 1, fi - 1)
           /\ fi <= Len(folders) => ENABLED DeleteStep
           /\ fi > Len(folders) => ENABLED DeleteComplete
    /\ pc = "exc" => attempts = <<>>
    /\ (pc = "done" /\ folders # <<>>) => AttemptedPaths = folders

\* A completed batch of at least three paths in which a removal failed
\* and a later one succeeded.
C3_Witness ==
    /\ pc = "done"
    /\ Len(attempts) >= 3
    /\ \E k \in 1..Len(attempts) :
           /\ ~attempts[k].ok
           /\ \E j \in (k + 1)..Len(attempts) : attempts[j].ok

\* C4. Root exemption: the mount root of a drive is never in the candidate
\* list, never among the paths written to the log, and never the argument
\* of a removal.
C4_RootExemption ==
    \A root \in Roots :
        /\ root \notin Range(folders_marked_for_deletion)
        /\ root \notin Range(written.list)
        /\ root \notin Range(AttemptedPaths)

\* C5. Idempotent provisioning: no step of discovery changes an id or a
\* name that the descriptor on disk holds, and none writes a descriptor
\* that holds both.
C5_IdempotentProvisioning ==
    [][pc = "detect" =>
         \A l \in Range(Letters) :
            /\ \A key \in {"id", "name"} :
                 (desc[l].kind = "object" /\ key \in DOMAIN desc[l].data) =>
                    /\ desc'[l].kind = "object"
                    /\ key \in DOMAIN desc'[l].data
                    /\ desc'[l].data[key] = desc[l].data[key]
            /\ (desc[l].kind = "object"
                /\ {"id", "name"} \subseteq DOMAIN desc[l].data) =>
                    desc'[l] = desc[l]]_vars

\* The descriptor is an object whose source is anything but the boolean
\* true, or is missing.
NotASource(file) ==
    /\ file.kind = "object"
    /\ ("source" \in DOMAIN file.data => file.data["source"] # "true")

\* C6. Eligibility gate: a volume whose descriptor has a source other than
\* true is never in valid_drives, and no step changes its descriptor.
C6_EligibilityGate ==
    /\ [](\A k \in 1..Len(valid_drives) :
             ~NotASource(desc[LetterOf(valid_drives[k].path)]))
    /\ [][\A l \in Range(Letters) :
             NotASource(desc[l]) => desc'[l] = desc[l]]_vars

\* Discovery has returned F: and not E:, whose source is the number 1.
C6_Witness ==
    /\ pc = "walk"
    /\ desc["E"].kind = "object"
    /\ Get(desc["E"].data, "source", "null") = "1"
    /\ Len(valid_drives) = 1
    /\ valid_drives[1].path = DrivePath("F")

\* The recognized media extensions of the specification.
MediaExtensionSet ==
    { <<".","j","p","g">>, <<".","j","p","e","g">>, <<".","p","n","g">>,
      <<".","g","i","f">>, <<".","b","m","p">>, <<".","h","e","i","c">>,
      <<".","m","p","4">>, <<".","m","o","v">>, <<".","a","v","i">>,
      <<".","m","k","v">> }

\* Zero files with a recognized media extension, compared without regard to
\* case, and zero subdirectories.
NoMediaNoSubdirs(files, subs) ==
    /\ \A e \in files :
           e.kind = "file" => Lower(SplitExt(e.name)) \notin MediaExtensionSet
    /\ subs = {}

C8_PurgeFlagGate ==
    \A p \in Range(folders_marked_for_deletion) :
        \E k \in 1..Len(valid_drives) :
            /\ LetterOf(valid_drives[k].path) = LetterOf(p)
            /\ "purge" \in DOMAIN valid_drives[k].json
            /\ valid_drives[k].json["purge"] = "true"

\* The descriptor can be used as it is: a source with id and name.
Usable(file) ==
    /\ file.kind = "object"
    /\ "source" \in DOMAIN file.data
    /\ file.data["source"] = "true"
    /\ {"id", "name"} \subseteq DOMAIN file.data

\* C9. Isolation of descriptor read failures: no descriptor makes discovery
\* end with an exception, and when discovery has returned, every volume
\* with a usable descriptor is in the list.
C9_ReadFailureIsolation ==
    /\ pc # "exc"
    /\ pc = "walk" =>
           \A l \in Range(Letters) :
               Usable(desc[l]) =>
                   \E k \in 1..Len(valid_drives) :
                       valid_drives[k].path = DrivePath(l)

\* C10. Unbaptizable volumes are not returned: while discovery runs and
\* when it has returned, every drive of the list has on disk the id and
\* the name it carries in memory; and discovery ends with an exception
\* only at a descriptor that is not an object, never at a failed write.
C10_ReturnedDrivesAreOnDisk ==
    /\ pc \in {"detect", "walk"} =>
           \A k \in 1..Len(valid_drives) :
              LET file == desc[LetterOf(valid_drives[k].path)] IN
              /\ file.kind = "object"
              /\ {"id", "name"} \subseteq DOMAIN file.data
              /\ file.data["id"] = valid_drives[k].id
              /\ file.data["name"] = valid_drives[k].name
              /\ valid_drives[k].json = file.data
    /\ pc = "exc" => desc[Letters[di]].kind = "nonobject"

\* Discovery has returned: the write to E:, a source without id, failed, E:
\* is not in the list, and F:, which came after it, is.
C10_Witness ==
    /\ pc = "walk"
    /\ \/ desc["E"].kind = "malformed"
       \/ /\ desc["E"].kind = "object"
          /\ IsSource(desc["E"].data)
          /\ "id" \notin DOMAIN desc["E"].data
    /\ run = 1
    /\ Len(valid_drives) = 1
    /\ valid_drives[1].path = DrivePath("F")
    /\ valid_drives[1].id \in NewIds

\* config.json cannot be loaded, or one of the four paths does not exist.
FatalStartup ==
    \/ ~config.readable
    \/ \E k \in DOMAIN config.paths : ~config.paths[k]

\* C11. Fatal startup failure does no work: with a config.json that cannot
\* be loaded or a path that does not exist, the process goes from its start
\* to exit code 1 and nowhere else; no drive is discovered, no file is
\* handed to backup, no directory is checked or marked, no deletion log is
\* written, no removal is attempted, and no descriptor, directory or log
\* on disk changes.
C11_FatalStartupDoesNoWork ==
    /\ [](FatalStartup =>
            /\ pc \in {"start", "exit1"}
            /\ valid_drives = <<>>
            /\ backed_up = {}
            /\ last_try = NoTry
            /\ folders_marked_for_deletion = <<>>
            /\ ~written.done
            /\ attempts = <<>>)
    /\ [][FatalStartup =>
            /\ pc = "start" => pc' = "exit1"
            /\ UNCHANGED <<desc, dirs, logfile>>]_vars

\* The second run in a row has exited with 1: config.json loads, and
\* triage_script is the only path that does not exist.
C11_Witness ==
    /\ pc = "exit1"
    /\ run = 2
    /\ config.readable
    /\ \A k \in PathKeys : config.paths[k] <=> k # "triage_script"

C13_NoCascadingWithinARun ==
    /\ [](/\ last_try.marked => last_try.subs = {}
          /\ pc = "walk" =>
                 \A p \in Range(folders_marked_for_deletion) :
                    p \in DOMAIN dirs /\ dirs[p].subs = {}
          /\ \A i, j \in 1..Len(folders_marked_for_deletion) :
                 i # j => ~IsUnder(folders_marked_for_deletion[i],
                                   folders_marked_for_deletion[j]))
    /\ [][\A p \in DOMAIN dirs \ DOMAIN dirs' :
             p \in Range(folders_marked_for_deletion)]_vars

\* File path f names an entry held directly by directory p.
DirectlyIn(f, p) ==
    /\ Len(f) > Len(p) + 1
    /\ SubSeq(f, 1, Len(p)) = p
    /\ f[Len(p) + 1] = Sep
    /\ \A k \in (Len(p) + 2)..Len(f) : f[k] # Sep

\* C14. Media is never marked for purge: the walker and the emptiness check
\* use the same extension set, and no candidate of a run directly contains
\* a file that was handed to backup_media_file in that run.
C14_MediaNeverMarked ==
    /\ Range(media_exts) = Range(purge_media_exts)
    /\ \A p \in Range(folders_marked_for_deletion) :
           \A f \in backed_up : ~DirectlyIn(f, p)

\* The step is a purge check of the directory at the head of the walk whose
\* listing failed.
PurgeListingFails ==
    /\ pc = "walk"
    /\ todo # <<>>
    /\ last_try'.path = Head(todo)
    /\ ~last_try'.listed
    /\ list_failures' = list_failures + 1

\* C15. Listing-failure isolation in the walk: a purge check whose listing
\* fails leaves the candidate list as it was and the process in the walk,
\* and what remains to be walked is what remains after a successful check
\* (the subdirectories of the directory, then the rest of the drive, then
\* the next drive); until the last drive is done there is a directory to
\* visit next, and every directory still to be visited exists; and no
\* exception ends a run that has reached the walk.
C15_ListingFailureIsolation ==
    /\ [][PurgeListingFails =>
            LET root == Head(todo)
                rest == SubPaths(root, dirs[root].subs, NameOrder)
                        \o Tail(todo)
            IN  /\ folders_marked_for_deletion' = folders_marked_for_deletion
                /\ ~last_try'.marked
                /\ pc' = "walk"
                /\ rest # <<>> => (wi' = wi /\ todo' = rest)
                /\ rest = <<>> =>
                       /\ wi' = wi + 1
                       /\ wi' <= Len(valid_drives) =>
                              todo' = <<valid_drives[wi'].path>>]_vars
    /\ [](pc = "walk" =>
            /\ wi <= Len(valid_drives) =>
                   /\ todo # <<>>
                   /\ \A k \in 1..Len(todo) : todo[k] \in DOMAIN dirs
            /\ wi > Len(valid_drives) => todo = <<>>)
    /\ [](pc = "exc" => last_try = NoTry /\ list_failures = 0)

\* The purge check of a directory of E: has just failed to list it, and
\* directories of E: and the drive F: are still to be walked.
C15_Witness ==
    /\ pc = "walk"
    /\ last_try.path # <<>>
    /\ ~last_try.listed
    /\ LetterOf(last_try.path) = "E"
    /\ wi = 1
    /\ Len(todo) >= 2
    /\ Len(valid_drives) = 2

\* The candidate list changes only by the walk appending, at its end, the
\* directory being visited, or by a new process starting with an empty list.
ListChangesByAppendInWalk ==
    folders_marked_for_deletion' # folders_marked_for_deletion =>
        \/ /\ pc = "walk" /\ pc' = "walk"
           /\ wi <= Len(valid_drives)
           /\ todo # <<>>
           /\ folders_marked_for_deletion' =
                  Append(folders_marked_for_deletion, Head(todo))
        \/ /\ pc' = "start"
           /\ folders_marked_for_deletion' = <<>>

\* The list is taken by the deletion pipeline (written to the log) only
\* when every drive has been walked and it has not been taken in this run,
\* and what is taken is the list as it is.
ListTakenAfterWalkOnly ==
    written' # written =>
        \/ /\ pc = "walk"
           /\ wi > Len(valid_drives)
           /\ todo = <<>>
           /\ ~written.done
           /\ written' = [done |-> TRUE, list |-> folders_marked_for_deletion]
           /\ folders_marked_for_deletion' = folders_marked_for_deletion
        \/ /\ pc' = "start"
           /\ written' = NoWrite

\* C16 as stated. Candidate list lifecycle: the list only grows by appends
\* at its end during the walk, nothing is appended after the walk, and the
\* deletion pipeline takes the list exactly once per run, after all drives
\* have been walked: a run that has ended has had its list taken.
C16_CandidateListLifecycle ==
    /\ [][ListChangesByAppendInWalk /\ ListTakenAfterWalkOnly]_vars
    /\ [](pc \in {"done", "exit1", "exc", "killed"} => written.done)

\* C16 as amended. The list only grows by appends at its end during the
\* walk, nothing is appended after the walk, and the deletion pipeline takes
\* the list at most once per run, after all drives have been walked:
\* exactly once when the walk has ended with a list that is not empty, and
\* not at all when the list is empty or the run ended before its walk.
C16_ListTakenAtMostOnce ==
    /\ [][ListChangesByAppendInWalk /\ ListTakenAfterWalkOnly]_vars
    /\ [](pc \in {"confirm", "delete", "done", "killed"} =>
            /\ written.done <=> folders_marked_for_deletion # <<>>
            /\ written.done => written.list = folders_marked_for_deletion)
    /\ [](pc \in {"start", "detect", "walk", "exit1", "exc"} =>
            ~written.done)

\* A run has ended whose walk marked a directory on E: and then one on F:,
\* and the pipeline has taken the list of both.
C16_Witness ==
    /\ pc = "done"
    /\ Len(folders_marked_for_deletion) = 2
    /\ LetterOf(folders_marked_for_deletion[1]) = "E"
    /\ LetterOf(folders_marked_for_deletion[2]) = "F"
    /\ written.done
    /\ written.list = folders_marked_for_deletion

====
